---- MODULE Spec2Model ----
(***************************************************************************)
(* Model of the sporacle client: src/sporacle.py (Aoi, OracleSpatialQueries)*)
(* and of the earlier unguarded variant src/oracle_test.py.                 *)
(*                                                                          *)
(* The program is synchronous and single threaded, so every client call is  *)
(* one action.  The remote database (catalog, rows) and the geometry files  *)
(* are the environment.  An optional Python value (None or x) is a sequence *)
(* of length 0 or 1.                                                        *)
(***************************************************************************)
EXTENDS Integers, Sequences, FiniteSets, TLC

VARIABLES
    phase,       \* "new" | "live" | "failed" (constructor raised) | "deleted"
    attrs,       \* names of the attributes assigned on self so far
    conn,        \* self.conn: <<>> (None) or <<session id>>
    table_dict,  \* keys of self.table_dict (every value is the empty dict)
    aoi,         \* self.aoi: <<>> (None) or <<Aoi object>>
    sessions,    \* database sessions currently open on the server
    opened,      \* number of sessions ever opened by oracledb.connect
    closes,      \* number of conn.close() calls
    catalog,     \* tables and views that exist in the database right now
    last         \* outcome of the most recent client call

vars == <<phase, attrs, conn, table_dict, aoi, sessions, opened, closes, catalog, last>>

----------------------------------------------------------------------------
(* Bounds *)

MaxComputes == 2      \* buffer computations explored per Aoi object

----------------------------------------------------------------------------
(* Program constants *)

EPSG == 3005

----------------------------------------------------------------------------
(* The environment: geometry, files, database content *)

None == <<>>
Some(x) == <<x>>

Abs(n) == IF n < 0 THEN -n ELSE n

SetMin(S) == CHOOSE x \in S : \A y \in S : x <= y
SetMax(S) == CHOOSE x \in S : \A y \in S : x >= y

\* A geometry is a set of unit cells on a line, its coordinates read in some
\* reference system.  Coordinates of the same place differ between systems.
CrsOffset(epsg) == IF epsg = EPSG THEN 0 ELSE 10

\* df.to_crs: the same place, expressed in the coordinates of `epsg`.
to_crs(df, epsg) ==
    [crs |-> epsg,
     cw |-> df.cw,
     geoms |-> [i \in 1..Len(df.geoms) |->
                  {c - CrsOffset(df.crs) + CrsOffset(epsg) : c \in df.geoms[i]}]]

\* The band of width d outside / inside a geometry's boundary.
Outer(g, d) ==
    IF g = {} THEN {}
    ELSE {c \in (SetMin(g) - d)..(SetMax(g) + d) :
            c \notin g /\ \E x \in g : Abs(c - x) <= d}
Inner(g, d) ==
    {c \in g : \E y \in (SetMin(g) - d)..(SetMax(g) + d) :
                  y \notin g /\ Abs(c - y) <= d}

\* shapely: exterior.buffer(distance, single_sided=True).  A positive distance
\* buffers the left side of the ring, a negative one the right side; which of
\* them lies outside the polygon follows from the ring's direction.
single_sided_buffer(g, distance, cw) ==
    IF distance = 0 THEN {}
    ELSE IF (distance > 0) = cw THEN Outer(g, Abs(distance))
    ELSE Inner(g, Abs(distance))

Area(g) == Cardinality(g)

\* gpd.read_file: the datasets the caller can load.
Files == {"one.kml", "bc.shp", "two.kml"}
read_file(input) ==
    CASE input = "one.kml" -> [crs |-> 4326, cw |-> TRUE,  geoms |-> <<{11}>>]
      [] input = "bc.shp"  -> [crs |-> 3005, cw |-> FALSE, geoms |-> <<{3}>>]
      [] input = "two.kml" -> [crs |-> 4326, cw |-> TRUE,  geoms |-> <<{11}, {14}>>]

Distances == {1, -1}

\* Database objects, named owner.name; the geometry of a row is in EPSG:3005.
Tables == {"W.T1", "W.V2"}
ObjectKind(t) == IF t = "W.T1" THEN "table" ELSE "view"
TableRows(t) ==
    IF t = "W.T1"
    THEN << [id |-> 1, geom |-> {1},    A |-> TRUE,  B |-> FALSE],
            [id |-> 2, geom |-> {2, 3}, A |-> FALSE, B |-> FALSE],
            [id |-> 3, geom |-> {8},    A |-> FALSE, B |-> TRUE] >>
    ELSE << [id |-> 1, geom |-> {4},    A |-> TRUE,  B |-> FALSE],
            [id |-> 2, geom |-> {9},    A |-> FALSE, B |-> TRUE] >>
TableColumns(t) == <<"OBJECTID", "SHAPE", "SE_ANNO_CAD_DATA">>
ColumnType(c) == IF c = "SHAPE" THEN "SDO_GEOMETRY" ELSE "NUMBER"

\* Caller-supplied filter fragments (dfn_query), as SQL tokens; None is <<>>.
Filters == {None, <<"A">>, <<"A", "OR", "B">>}

----------------------------------------------------------------------------
(* class Aoi *)

\* An Aoi object: df is the loaded dataset, buffers the dict self.buffers (a
\* function on the distances cached so far), computes the number of buffer
\* computations made so far (it gives the buffer objects their identity).
\* An Aoi that keeps the dataset in the reference it was read in.
Aoi_init_NoReproject(input) ==
    [df |-> read_file(input), buffers |-> <<>>, computes |-> 0]

Aoi_init(input) ==
    LET df == read_file(input) IN
    [df |-> IF EPSG = df.crs THEN df ELSE to_crs(df, EPSG),
     buffers |-> <<>>,
     computes |-> 0]

\* GeoSeries.to_wkb().iloc[0]: the coordinates of the first geometry, without
\* its reference system.
to_wkb_iloc0(geoms) == [bytes |-> geoms[1]]

get_wkb_geom(a) == to_wkb_iloc0(a.df.geoms)

\* df.exterior.buffer(distance, single_sided=True): one buffer per feature, a
\* new object at each computation.
exterior_buffer(a, distance, bid) ==
    [bid |-> bid,
     geoms |-> [i \in 1..Len(a.df.geoms) |->
                  single_sided_buffer(a.df.geoms[i], distance, a.df.cw)]]

\* b.area: the series of the features' areas.
area(b) == [i \in 1..Len(b.geoms) |-> Area(b.geoms[i])]

\* float(series): defined for a series of exactly one element.
CanFloat(series) == Len(series) = 1
float(series) == series[1]

\* The buffer get_outisde_buffer stores for a distance that is not cached.
ChooseBuffer(b1, b2) == IF float(area(b1)) > float(area(b2)) THEN b1 ELSE b2

\* Whether get_outisde_buffer answers from self.buffers.
IsCached(a, distance) == distance \in DOMAIN a.buffers

\* get_outisde_buffer lines 52-57: the larger candidate is stored and returned.
StoreBuffer(a, distance, b1, b2) ==
    IF ~(CanFloat(area(b1)) /\ CanFloat(area(b2)))
    THEN [a |-> a, err |-> "TypeError", b |-> None]
    ELSE [a |-> [a EXCEPT !.buffers = (distance :> ChooseBuffer(b1, b2)) @@ @,
                          !.computes = @ + 1],
          err |-> "", b |-> Some(ChooseBuffer(b1, b2))]

\* Aoi.get_outisde_buffer: [a: the object afterwards, err, b: <<returned>>].
get_outisde_buffer(a, distance) ==
    IF IsCached(a, distance)
    THEN [a |-> a, err |-> "", b |-> Some(a.buffers[distance])]
    ELSE StoreBuffer(a, distance,
                     exterior_buffer(a, distance, 2 * a.computes + 1),
                     exterior_buffer(a, distance * (-1), 2 * a.computes + 2))

----------------------------------------------------------------------------
(* SQL as the database evaluates it *)

\* SDO_GEOMETRY(:wkb, :srid): the bound geometry.
SDO_GEOMETRY(wkb, srid) == [coords |-> wkb.bytes, srid |-> srid]

\* SDO_RELATE(geom, q, 'mask=ANYINTERACT') = 'TRUE', the layer being in 3005.
SDO_RELATE(geom, q) == q.srid = 3005 /\ geom \cap q.coords # {}

\* One condition of a WHERE clause on one row; rownum is the number the row
\* would get if it were returned.
EvalAtom(tok, row, q, rownum) ==
    CASE tok = "SDO_RELATE" -> SDO_RELATE(row.geom, q)
      [] tok = "ROWNUM=1"   -> rownum = 1
      [] tok = "A"          -> row.A
      [] tok = "B"          -> row.B

HasOr(toks) == \E i \in 1..Len(toks) : toks[i] = "OR"
FirstOr(toks) == CHOOSE i \in 1..Len(toks) :
                    toks[i] = "OR" /\ \A j \in 1..(i - 1) : toks[j] # "OR"

\* SQL precedence: AND binds tighter than OR.
RECURSIVE Disjuncts(_)
Disjuncts(toks) ==
    IF ~HasOr(toks) THEN <<toks>>
    ELSE <<SubSeq(toks, 1, FirstOr(toks) - 1)>>
         \o Disjuncts(SubSeq(toks, FirstOr(toks) + 1, Len(toks)))

EvalWhere(where, row, q, rownum) ==
    LET ds == Disjuncts(where) IN
    \E k \in 1..Len(ds) :
        \A i \in 1..Len(ds[k]) :
            ds[k][i] = "AND" \/ EvalAtom(ds[k][i], row, q, rownum)

\* The rows a SELECT returns, in table order.
RECURSIVE Scan(_, _, _, _, _)
Scan(rows, i, where, q, out) ==
    IF i > Len(rows) THEN out
    ELSE Scan(rows, i + 1, where, q,
              IF EvalWhere(where, rows[i], q, Len(out) + 1)
              THEN Append(out, rows[i]) ELSE out)

Select(table, where, q) == Scan(TableRows(table), 1, where, q, <<>>)

\* SELECT SUM(OBJ_CNT) FROM (count of views UNION count of tables): UNION
\* keeps distinct rows only.
RECURSIVE SumSet(_)
SumSet(S) == IF S = {} THEN 0 ELSE LET x == CHOOSE y \in S : TRUE IN x + SumSet(S \ {x})

CountObjects(db_table, kind) ==
    IF db_table \in catalog /\ ObjectKind(db_table) = kind THEN 1 ELSE 0

ExistsQuery(db_table) ==
    SumSet({CountObjects(db_table, "view"), CountObjects(db_table, "table")})

\* SELECT COLUMN_NAME FROM all_tab_columns ... : the rows returned.
CatalogColumns(db_table) == IF db_table \in catalog THEN TableColumns(db_table) ELSE <<>>

GeomColumnQuery(db_table) ==
    LET IsGeom(c) == ColumnType(c) = "SDO_GEOMETRY" IN
    SelectSeq(CatalogColumns(db_table), IsGeom)

ColumnsQuery(db_table) ==
    LET Keep(c) == c # "SE_ANNO_CAD_DATA" IN
    SelectSeq(CatalogColumns(db_table), Keep)

----------------------------------------------------------------------------
(* class OracleSpatialQueries (src/sporacle.py): the query methods *)

\* A call works on a frame f: td is self.table_dict, aoi is self.aoi, and log
\* is the trace of what the call has done so far.
NoGeom == [coords |-> {}, srid |-> 0]
Ev(ev, kind, table, ok, q) == [ev |-> ev, kind |-> kind, table |-> table, ok |-> ok, q |-> q]
Logged(f, e) == [f EXCEPT !.log = Append(@, e)]

\* "with self.conn.cursor() as cursor": the cursor is opened, and released when
\* the block is left, by return or by an exception.
\* A cursor scope that never releases its cursor.
CursorClose_Leak(f) == f

CursorOpen(f) == Logged(f, Ev("cursor_open", "", "", TRUE, NoGeom))
CursorClose(f) == Logged(f, Ev("cursor_close", "", "", TRUE, NoGeom))

\* cursor.execute(query): the statement reaches the database.
Executed(f, kind, table, q) == Logged(f, Ev("query", kind, table, TRUE, q))

\* What a method gives back: err is "" on a normal return and the exception's
\* type otherwise (errtable: the table its message names).
Ret(f) ==
    [f |-> f, err |-> "", errtable |-> "", kind |-> "none", b |-> FALSE,
     s |-> "", cols |-> <<>>, rows |-> <<>>, buf |-> None]
Raise(f, err, errtable) == [Ret(f) EXCEPT !.err = err, !.errtable = errtable, !.kind = "raise"]
RetBool(f, b) == [Ret(f) EXCEPT !.kind = "bool", !.b = b]

\* A has_table that never finds the table in its registry.
InRegistry_NoMemo(f, db_table) == FALSE

\* has_table line 241: the table has been checked before.
InRegistry(f, db_table) == db_table \in f.td

\* has_table line 254: self.table_dict[db_table] = {}
Register(f, db_table) == [f EXCEPT !.td = @ \cup {db_table}]

\* has_table lines 249-257, after the registry missed: the catalog is asked,
\* and a positive count is remembered.
has_table_lookup(f1, db_table, result) ==
    IF result > 0
    THEN RetBool(Logged(Register(f1, db_table),
                        Ev("has_table", "", db_table, TRUE, NoGeom)), TRUE)
    ELSE RetBool(Logged(f1, Ev("has_table", "", db_table, FALSE, NoGeom)), FALSE)

\* OracleSpatialQueries.has_table.  Its evaluation and answer are logged.
has_table(f, db_table) ==
    IF InRegistry(f, db_table)
    THEN RetBool(Logged(f, Ev("has_table", "", db_table, TRUE, NoGeom)), TRUE)
    ELSE has_table_lookup(CursorClose(Executed(CursorOpen(f), "exists", db_table, NoGeom)),
                          db_table, ExistsQuery(db_table))

\* raise Exception(f"Table {table} does not exist for this user"): the message
\* is formatted first, and reading a local name that is not bound yet raises
\* UnboundLocalError in place of the Exception.
RaiseMissingTable(f, table_is_bound, table) ==
    IF table_is_bound THEN Raise(f, "Exception", table)
    ELSE Raise(f, "UnboundLocalError", "")

\* Whether the name `table` is bound where a method's guard formats its
\* message: in get_bcgw_geomcolumn and get_bcgw_columns it is a local assigned
\* by "owner, table = db_table.split('.')", after the guard; in the other
\* methods it is the parameter.
TableBoundAtGuard(method) == method \in {"has_relate", "get_related", "get_intersecting"}

\* A guard that lets every table through.
GuardFails_Never(h) == FALSE

\* The guard "if self.has_table(...) is False: raise ...": h is has_table's answer.
GuardFails(h) == h.b = FALSE

\* get_bcgw_geomcolumn lines 263-270: q = cursor.fetchone(); geom_c = q[0].
geomcolumn_fetch(f1, rows) ==
    IF rows = <<>>
    THEN Raise(CursorClose(f1), "TypeError", "")
    ELSE [Ret(CursorClose(f1)) EXCEPT !.kind = "str", !.s = rows[1]]

geomcolumn_guarded(h, db_table) ==
    IF GuardFails(h)
    THEN RaiseMissingTable(h.f, TableBoundAtGuard("get_bcgw_geomcolumn"), db_table)
    ELSE geomcolumn_fetch(Executed(CursorOpen(h.f), "geomcol", db_table, NoGeom),
                          GeomColumnQuery(db_table))

get_bcgw_geomcolumn(f, db_table) == geomcolumn_guarded(has_table(f, db_table), db_table)

columns_guarded(h, db_table) ==
    IF GuardFails(h)
    THEN RaiseMissingTable(h.f, TableBoundAtGuard("get_bcgw_columns"), db_table)
    ELSE [Ret(CursorClose(Executed(CursorOpen(h.f), "columns", db_table, NoGeom)))
            EXCEPT !.kind = "list", !.cols = ColumnsQuery(db_table)]

get_bcgw_columns(f, db_table) == columns_guarded(has_table(f, db_table), db_table)

\* The lines "if buffer is None: wkb = self.aoi.get_wkb_geom() else: wkb =
\* self.aoi.get_outisde_buffer(buffer).to_wkb().iloc[0]" and the params dict.
\* [f, err, q]: q is the geometry bound to the statement.
BindBuffer(f, r) ==
    IF r.err # "" THEN [f |-> [f EXCEPT !.aoi = Some(r.a)], err |-> r.err, q |-> NoGeom]
    ELSE [f |-> [f EXCEPT !.aoi = Some(r.a)], err |-> "",
          q |-> SDO_GEOMETRY(to_wkb_iloc0(r.b[1].geoms), EPSG)]

BindGeometry(f, buffer) ==
    IF f.aoi = None THEN [f |-> f, err |-> "AttributeError", q |-> NoGeom]
    ELSE IF buffer = None
    THEN [f |-> f, err |-> "", q |-> SDO_GEOMETRY(get_wkb_geom(f.aoi[1]), EPSG)]
    ELSE BindBuffer(f, get_outisde_buffer(f.aoi[1], buffer[1]))

\* query = query + f" AND {dfn_query}": the fragment is appended as it is.
AppendFilter(where, dfn_query) ==
    IF dfn_query # None THEN where \o <<"AND">> \o dfn_query ELSE where

\* cursor.fetchone(): the first row of the result, or None.
fetchone(rows) == IF rows = <<>> THEN None ELSE Some(rows[1])

\* cursor.fetchall(): the list of the rows, empty when there is none.
fetchall(rows) == Some(rows)

\* has_relate lines 131-134: "if row is not None: return True else: return False"
RelateResult(row) == row # None

\* has_relate lines 126-134: execute, fetchone, leave the with block, answer.
has_relate_exec(bind, table, where) ==
    IF bind.err # "" THEN Raise(CursorClose(bind.f), bind.err, "")
    ELSE IF table \notin catalog
    THEN Raise(CursorClose(Executed(bind.f, "relate", table, bind.q)), "DatabaseError", "")
    ELSE RetBool(CursorClose(Executed(bind.f, "relate", table, bind.q)),
                 RelateResult(fetchone(Select(table, where, bind.q))))

\* has_relate lines 116-125: g is what get_bcgw_geomcolumn gave.
has_relate_query(g, table, dfn_query, buffer) ==
    IF g.err # "" THEN g
    ELSE has_relate_exec(BindGeometry(CursorOpen(g.f), buffer), table,
                         AppendFilter(<<"SDO_RELATE", "AND", "ROWNUM=1">>, dfn_query))

has_relate_guarded(h, table, dfn_query, buffer) ==
    IF GuardFails(h) THEN RaiseMissingTable(h.f, TableBoundAtGuard("has_relate"), table)
    ELSE has_relate_query(get_bcgw_geomcolumn(h.f, table), table, dfn_query, buffer)

\* OracleSpatialQueries.has_relate
has_relate(f, table, dfn_query, buffer) ==
    has_relate_guarded(has_table(f, table), table, dfn_query, buffer)

\* all_columns.remove(geom_column)
ListRemove(l, x) == LET Keep(y) == y # x IN SelectSeq(l, Keep)

\* The geometry column of the result: get_related selects the row's geometry,
\* get_intersecting its sdo_intersection with the bound geometry.
ResultGeom(method, row, q) ==
    IF method = "get_intersecting" THEN row.geom \cap q.coords ELSE row.geom

\* The GeoDataFrame built from the fetched rows: one row per fetched row, its
\* geometry decoded from wkb_geom and tagged EPSG.
Frame(method, rows, q) ==
    [i \in 1..Len(rows) |->
        [id |-> rows[i].id, geom |-> ResultGeom(method, rows[i], q), crs |-> EPSG]]

\* get_related lines 164-174 (get_intersecting 211-220): "if rows is not None:
\* gdf = GeoDataFrame(rows, ...) else: gdf = None; return gdf".
FrameResult(f, method, rows, cols, q) ==
    IF rows # None
    THEN [Ret(f) EXCEPT !.kind = "frame", !.rows = Frame(method, rows[1], q),
                        !.cols = Append(cols, "wkb_geom")]
    ELSE Ret(f)

\* get_related lines 159-174 and get_intersecting lines 207-220.
fetch_exec(bind, method, table, where, all_columns) ==
    IF bind.err # "" THEN Raise(CursorClose(bind.f), bind.err, "")
    ELSE IF table \notin catalog
    THEN Raise(CursorClose(Executed(bind.f, method, table, bind.q)), "DatabaseError", "")
    ELSE FrameResult(CursorClose(Executed(bind.f, method, table, bind.q)), method,
                     fetchall(Select(table, where, bind.q)), all_columns, bind.q)

\* get_related lines 147-158 and get_intersecting lines 187-206: c is what
\* get_bcgw_columns gave, geom_column what get_bcgw_geomcolumn gave.
fetch_query(c, geom_column, method, table, dfn_query, buffer) ==
    IF c.err # "" THEN c
    ELSE fetch_exec(BindGeometry(CursorOpen(c.f), buffer), method, table,
                    AppendFilter(<<"SDO_RELATE">>, dfn_query),
                    ListRemove(c.cols, geom_column))

fetch_columns(g, method, table, dfn_query, buffer) ==
    IF g.err # "" THEN g
    ELSE fetch_query(get_bcgw_columns(g.f, table), g.s, method, table, dfn_query, buffer)

fetch_guarded(h, method, table, dfn_query, buffer) ==
    IF GuardFails(h) THEN RaiseMissingTable(h.f, TableBoundAtGuard(method), table)
    ELSE fetch_columns(get_bcgw_geomcolumn(h.f, table), method, table, dfn_query, buffer)

\* OracleSpatialQueries.get_related
get_related(f, table, dfn_query, buffer) ==
    fetch_guarded(has_table(f, table), "get_related", table, dfn_query, buffer)

\* OracleSpatialQueries.get_intersecting; its "if dfn_query:" and get_related's
\* "if dfn_query is not None" agree on None and on every non-empty fragment.
get_intersecting(f, table, dfn_query, buffer) ==
    fetch_guarded(has_table(f, table), "get_intersecting", table, dfn_query, buffer)

\* GeoDataFrame.overlay(right, how="intersection"): one row per pair of a left
\* row and a right feature that overlap, with the common part as geometry.
RECURSIVE Overlay(_, _)
Overlay(left, right) ==
    IF left = <<>> THEN <<>>
    ELSE LET Hit(g) == Head(left).geom \cap g # {}
             hits == SelectSeq(right, Hit)
         IN  [i \in 1..Len(hits) |->
                [id |-> Head(left).id, geom |-> Head(left).geom \cap hits[i], crs |-> EPSG]]
             \o Overlay(Tail(left), right)

\* The buffer argument get_intersect_local hands to has_relate (line 223).
RelateBufferArg(buffer) == None

\* get_intersect_local lines 228-230: the_aoi is the buffer, as a table.
local_overlay_buffer(f, rows, r) ==
    IF r.err # "" THEN Raise([f EXCEPT !.aoi = Some(r.a)], r.err, "")
    ELSE [Ret([f EXCEPT !.aoi = Some(r.a)]) EXCEPT
            !.kind = "frame", !.rows = Overlay(rows, r.b[1].geoms)]

\* get_intersect_local lines 225-231: df1 is what get_related gave.
local_overlay(df1, buffer) ==
    IF df1.err # "" THEN df1
    ELSE IF buffer = None
    THEN [Ret(df1.f) EXCEPT !.kind = "frame",
                            !.rows = Overlay(df1.rows, df1.f.aoi[1].df.geoms)]
    ELSE local_overlay_buffer(df1.f, df1.rows, get_outisde_buffer(df1.f.aoi[1], buffer[1]))

local_related(h, table, dfn_query, buffer) ==
    IF h.err # "" THEN h
    ELSE IF ~h.b THEN Ret(h.f)
    ELSE local_overlay(get_related(h.f, table, dfn_query, buffer), buffer)

\* OracleSpatialQueries.get_intersect_local
get_intersect_local(f, table, dfn_query, buffer) ==
    local_related(has_relate(f, table, dfn_query, RelateBufferArg(buffer)),
                  table, dfn_query, buffer)

----------------------------------------------------------------------------
(* The connection: __init__, connect, __del__ *)

MaxSessions == 2      \* sessions explored (the conn ids oracledb hands out)

\* A connect that opens a connection at every call.
NeedsConnect_Always(c) == TRUE

\* connect line 84: "if self.conn is None"
NeedsConnect(c) == c = None

\* OracleSpatialQueries.connect.  db_up: whether oracledb.connect succeeds;
\* has_message: whether the exception caught has a .message attribute (it
\* depends on the exception's type).  [conn, sessions, opened, err, line].
connect(c, ss, n, db_up, has_message) ==
    LET tried == NeedsConnect(c)
        c1 == IF tried /\ db_up THEN Some(n + 1) ELSE c
        ss1 == IF tried /\ db_up THEN ss \cup {n + 1} ELSE ss
        n1 == IF tried /\ db_up THEN n + 1 ELSE n
    IN  IF tried /\ ~db_up /\ ~has_message
        THEN \* print(e.message) raises inside the handler
             [conn |-> c1, sessions |-> ss1, opened |-> n1, err |-> "AttributeError", line |-> 94]
        ELSE IF c1 = None
        THEN \* logger.debug(self.conn.is_healthy()) on None
             [conn |-> c1, sessions |-> ss1, opened |-> n1, err |-> "AttributeError", line |-> 95]
        ELSE [conn |-> c1, sessions |-> ss1, opened |-> n1, err |-> "", line |-> 0]

\* The outcome of a call, kept in `last`.
Blank(op) ==
    [op |-> op, table |-> "", filter |-> None, buffer |-> None, input |-> "",
     err |-> "", errtable |-> "", kind |-> "none", b |-> FALSE, s |-> "",
     cols |-> <<>>, rows |-> <<>>, buf |-> None, log |-> <<>>,
     exists |-> FALSE, db_up |-> TRUE, line |-> 0]

Outcome(op, table, dfn_query, buffer, r) ==
    [Blank(op) EXCEPT !.table = table, !.filter = dfn_query, !.buffer = buffer,
                      !.err = r.err, !.errtable = r.errtable, !.kind = r.kind,
                      !.b = r.b, !.s = r.s, !.cols = r.cols, !.rows = r.rows,
                      !.log = r.f.log, !.exists = table \in catalog]

Init ==
    /\ phase = "new"
    /\ attrs = {}
    /\ conn = None
    /\ table_dict = {}
    /\ aoi = None
    /\ sessions = {}
    /\ opened = 0
    /\ closes = 0
    /\ catalog \in SUBSET Tables
    /\ last = Blank("start")

\* OracleSpatialQueries.__init__
Connected(op, r, db_up) ==
    /\ conn' = r.conn
    /\ sessions' = r.sessions
    /\ opened' = r.opened
    /\ last' = [Blank(op) EXCEPT !.err = r.err, !.db_up = db_up, !.line = r.line,
                                 !.kind = IF r.err = "" THEN "none" ELSE "raise"]

\* __init__ lines 74-78: table_dict is assigned after connect has returned.
Constructed(r) ==
    IF r.err # ""
    THEN phase' = "failed" /\ attrs' = {"aoi", "conn"}
    ELSE phase' = "live" /\ attrs' = {"aoi", "conn", "table_dict"}

Construct ==
    /\ phase = "new"
    /\ \E db_up \in BOOLEAN, has_message \in BOOLEAN :
         /\ Connected("__init__", connect(None, sessions, opened, db_up, has_message), db_up)
         /\ Constructed(connect(None, sessions, opened, db_up, has_message))
    /\ aoi' = None
    /\ table_dict' = {}
    /\ UNCHANGED <<closes, catalog>>

\* A later call of connect on the client.
Connect ==
    /\ phase = "live"
    /\ opened < MaxSessions
    /\ \E db_up \in BOOLEAN, has_message \in BOOLEAN :
         Connected("connect", connect(conn, sessions, opened, db_up, has_message), db_up)
    /\ UNCHANGED <<phase, attrs, table_dict, aoi, closes, catalog>>

\* OracleSpatialQueries.__del__, run when the client object is discarded (also
\* one whose constructor raised).
Del ==
    /\ phase \in {"live", "failed"}
    /\ phase' = "deleted"
    /\ IF conn # None
       THEN /\ sessions' = sessions \ {conn[1]}
            /\ closes' = closes + 1
       ELSE UNCHANGED <<sessions, closes>>
    /\ last' = Blank("__del__")
    /\ UNCHANGED <<attrs, conn, table_dict, aoi, opened, catalog>>

\* OracleSpatialQueries.add_aoi
AddAoi(input) ==
    /\ phase = "live"
    /\ aoi' = Some(Aoi_init(input))
    /\ last' = [Blank("add_aoi") EXCEPT !.input = input]
    /\ UNCHANGED <<phase, attrs, conn, table_dict, sessions, opened, closes, catalog>>

\* The model explores a bounded number of buffer computations per Aoi object.
WithinComputes(buffer) ==
    buffer # None /\ aoi # None =>
        (IsCached(aoi[1], buffer[1]) \/ aoi[1].computes < MaxComputes)

Buffered(distance, r) ==
    /\ aoi' = Some(r.a)
    /\ last' = [Blank("get_outisde_buffer") EXCEPT
                  !.buffer = Some(distance), !.err = r.err, !.buf = r.b,
                  !.kind = IF r.err = "" THEN "buffer" ELSE "raise"]

\* The caller uses db.aoi.get_outisde_buffer(distance) directly.
GetOutsideBuffer(distance) ==
    /\ phase = "live"
    /\ aoi # None
    /\ WithinComputes(Some(distance))
    /\ Buffered(distance, get_outisde_buffer(aoi[1], distance))
    /\ UNCHANGED <<phase, attrs, conn, table_dict, sessions, opened, closes, catalog>>

\* A query method called by the caller: r is what it gives back.
Frame0 == [td |-> table_dict, aoi |-> aoi, log |-> <<>>]

Returns(op, table, dfn_query, buffer, r) ==
    /\ table_dict' = r.f.td
    /\ aoi' = r.f.aoi
    /\ last' = Outcome(op, table, dfn_query, buffer, r)
    /\ UNCHANGED <<phase, attrs, conn, sessions, opened, closes, catalog>>

HasTable(t) ==
    /\ phase = "live"
    /\ Returns("has_table", t, None, None, has_table(Frame0, t))

GetBcgwGeomcolumn(t) ==
    /\ phase = "live"
    /\ Returns("get_bcgw_geomcolumn", t, None, None, get_bcgw_geomcolumn(Frame0, t))

GetBcgwColumns(t) ==
    /\ phase = "live"
    /\ Returns("get_bcgw_columns", t, None, None, get_bcgw_columns(Frame0, t))

HasRelate(t, q, d) ==
    /\ phase = "live"
    /\ WithinComputes(d)
    /\ Returns("has_relate", t, q, d, has_relate(Frame0, t, q, d))

GetRelated(t, q, d) ==
    /\ phase = "live"
    /\ WithinComputes(d)
    /\ Returns("get_related", t, q, d, get_related(Frame0, t, q, d))

GetIntersecting(t, q, d) ==
    /\ phase = "live"
    /\ WithinComputes(d)
    /\ Returns("get_intersecting", t, q, d, get_intersecting(Frame0, t, q, d))

GetIntersectLocal(t, q, d) ==
    /\ phase = "live"
    /\ WithinComputes(d)
    /\ Returns("get_intersect_local", t, q, d, get_intersect_local(Frame0, t, q, d))

\* The database changes under the client: an object is created or dropped.
CatalogCreate(t) ==
    /\ t \notin catalog
    /\ catalog' = catalog \cup {t}
    /\ last' = Blank("catalog")
    /\ UNCHANGED <<phase, attrs, conn, table_dict, aoi, sessions, opened, closes>>

CatalogDrop(t) ==
    /\ t \in catalog
    /\ catalog' = catalog \ {t}
    /\ last' = Blank("catalog")
    /\ UNCHANGED <<phase, attrs, conn, table_dict, aoi, sessions, opened, closes>>

Buffers == {None} \cup {Some(d) : d \in Distances}

Next ==
    \/ Construct
    \/ Connect
    \/ Del
    \/ \E input \in Files : AddAoi(input)
    \/ \E d \in Distances : GetOutsideBuffer(d)
    \/ \E t \in Tables : HasTable(t)
    \/ \E t \in Tables : GetBcgwGeomcolumn(t)
    \/ \E t \in Tables : GetBcgwColumns(t)
    \/ \E t \in Tables, q \in Filters, d \in Buffers : HasRelate(t, q, d)
    \/ \E t \in Tables, q \in Filters, d \in Buffers : GetRelated(t, q, d)
    \/ \E t \in Tables, q \in Filters, d \in Buffers : GetIntersecting(t, q, d)
    \/ \E t \in Tables, q \in Filters, d \in Buffers : GetIntersectLocal(t, q, d)
    \/ \E t \in Tables : CatalogCreate(t)
    \/ \E t \in Tables : CatalogDrop(t)

Spec == Init /\ [][Next]_vars

----------------------------------------------------------------------------
(* The earlier variant, src/oracle_test.py: no table guard, no buffers.  Its *)
(* __init__, connect, add_aoi and __del__ read as those of sporacle.py.      *)

\* oracle_test.py get_bcgw_geomcolumn: no has_table guard.
T_get_bcgw_geomcolumn(f, db_table) ==
    geomcolumn_fetch(Executed(CursorOpen(f), "geomcol", db_table, NoGeom),
                     GeomColumnQuery(db_table))

\* oracle_test.py has_relate lines 100-105: "if row[0] > 0", row being what
\* fetchone gave; row[0] is the ROWNUM selected, 1 for the first row returned.
T_RelateResult(f, row) ==
    IF row = None THEN Raise(f, "TypeError", "")
    ELSE RetBool(f, 1 > 0)

\* oracle_test.py has_relate lines 96-105.
T_has_relate_exec(f, table, where, q) ==
    IF table \notin catalog
    THEN Raise(CursorClose(Executed(f, "relate", table, q)), "DatabaseError", "")
    ELSE T_RelateResult(CursorClose(Executed(f, "relate", table, q)),
                        fetchone(Select(table, where, q)))

\* oracle_test.py has_relate lines 90-97: g is what get_bcgw_geomcolumn gave.
T_has_relate_query(g, table, dfn_query) ==
    IF g.err # "" THEN g
    ELSE IF g.f.aoi = None THEN Raise(CursorClose(CursorOpen(g.f)), "AttributeError", "")
    ELSE T_has_relate_exec(CursorOpen(g.f), table,
                           AppendFilter(<<"SDO_RELATE", "AND", "ROWNUM=1">>, dfn_query),
                           SDO_GEOMETRY(get_wkb_geom(g.f.aoi[1]), EPSG))

\* oracle_test.py OracleSpatialQueries.has_relate
T_has_relate(f, table, dfn_query) ==
    T_has_relate_query(T_get_bcgw_geomcolumn(f, table), table, dfn_query)

T_HasRelate(t, q) ==
    /\ phase = "live"
    /\ Returns("has_relate", t, q, None, T_has_relate(Frame0, t, q))

T_GetBcgwGeomcolumn(t) ==
    /\ phase = "live"
    /\ Returns("get_bcgw_geomcolumn", t, None, None, T_get_bcgw_geomcolumn(Frame0, t))

NextT ==
    \/ Construct
    \/ Connect
    \/ Del
    \/ \E input \in Files : AddAoi(input)
    \/ \E t \in Tables : T_GetBcgwGeomcolumn(t)
    \/ \E t \in Tables, q \in Filters : T_HasRelate(t, q)
    \/ \E t \in Tables : CatalogCreate(t)
    \/ \E t \in Tables : CatalogDrop(t)

SpecT == Init /\ [][NextT]_vars

----------------------------------------------------------------------------
(* What the claims speak of *)

PredicateKinds == {"relate", "get_related", "get_intersecting"}
IntrospectionKinds == {"geomcol", "columns"}
GuardedMethods == {"has_relate", "get_related", "get_intersecting"}

\* has_table(T) was evaluated during the call `c` and answered `ok`.
HasTableAnswered(c, T, ok) ==
    \E i \in DOMAIN c.log :
        c.log[i].ev = "has_table" /\ c.log[i].table = T /\ c.log[i].ok = ok

\* The call `c` sent a statement of one of `kinds` about table T.
Queried(c, T, kinds) ==
    \E i \in DOMAIN c.log :
        c.log[i].ev = "query" /\ c.log[i].table = T /\ c.log[i].kind \in kinds

\* A row satisfies a filter fragment, read on its own.
FilterHolds(dfn_query, row) == dfn_query = None \/ EvalWhere(dfn_query, row, NoGeom, 0)

\* The AOI of the specification: the first feature, in EPSG:3005.
AoiGeometry == aoi[1].df.geoms[1]

\* The buffer ring of a distance: the wider of the two bands along the boundary.
RingOf(g, d) ==
    LET out == Outer(g, Abs(d))
        in == Inner(g, Abs(d))
    IN  IF d = 0 THEN {} ELSE IF Area(out) >= Area(in) THEN out ELSE in

RingGeometry(d) == RingOf(AoiGeometry, d)

\* The geometry a call with this buffer argument is to query with.
QueryGeometry(buffer) == IF buffer = None THEN AoiGeometry ELSE RingGeometry(buffer[1])

\* The rows of a table that interact with a geometry and satisfy the filter.
Matching(table, dfn_query, geom) ==
    LET Match(row) == row.geom \cap geom # {} /\ FilterHolds(dfn_query, row)
    IN  SelectSeq(TableRows(table), Match)

Ids(rows) == [i \in DOMAIN rows |-> rows[i].id]

----------------------------------------------------------------------------
(* Claims *)

\* C1: once has_table(T) has answered true after a catalog lookup with a
\* positive count, T stays in the registry and every later evaluation of
\* has_table(T), direct or inside another method, answers true and sends no
\* existence query for T.  T enters the registry only in a call that looked T
\* up while T existed and answered true, and a call in which has_table
\* answered false leaves the registry as it was.
C1_Memoized ==
    [][\A T \in Tables :
         /\ T \in table_dict /\ phase' # "new" =>
              /\ T \in table_dict'
              /\ ~HasTableAnswered(last', T, FALSE)
              /\ ~Queried(last', T, {"exists"})
         /\ T \notin table_dict /\ T \in table_dict' =>
              /\ Queried(last', T, {"exists"})
              /\ HasTableAnswered(last', T, TRUE)
              /\ T \in catalog
         /\ HasTableAnswered(last', T, TRUE) => T \in table_dict'
         /\ HasTableAnswered(last', T, FALSE) => table_dict' = table_dict
      ]_vars

\* C1 witness: has_table answers true from the registry for a table that has
\* been dropped since, without any statement sent.
C1_Witness ==
    /\ last.op = "has_table"
    /\ last.b
    /\ ~last.exists
    /\ ~Queried(last, last.table, {"exists"})
    /\ last.table \in table_dict

\* C2: a column-introspection or predicate statement about T is sent only
\* after has_table(T) answered true in the same call; and when has_table(T)
\* answers false, has_relate, get_related and get_intersecting raise the
\* error naming T with no such statement sent and the registry unchanged.
C2_Guarded ==
    [][/\ \A i \in DOMAIN last'.log :
            (last'.log[i].ev = "query"
             /\ last'.log[i].kind \in IntrospectionKinds \cup PredicateKinds)
            => \E j \in 1..(i - 1) :
                  /\ last'.log[j].ev = "has_table"
                  /\ last'.log[j].table = last'.log[i].table
                  /\ last'.log[j].ok
       /\ (last'.op \in GuardedMethods /\ HasTableAnswered(last', last'.table, FALSE))
            => /\ last'.err = "Exception"
               /\ last'.errtable = last'.table
               /\ ~Queried(last', last'.table, IntrospectionKinds \cup PredicateKinds)
               /\ table_dict' = table_dict
      ]_vars

\* C2 witness: get_related on a table that does not exist raised the error
\* naming it, having sent the existence query only.
C2_Witness ==
    /\ last.op = "get_related"
    /\ HasTableAnswered(last, last.table, FALSE)
    /\ last.err = "Exception"
    /\ Queried(last, last.table, {"exists"})

\* C3 (as claimed): get_bcgw_geomcolumn and get_bcgw_columns, called on a
\* table for which has_table answers false, raise the missing-table error
\* naming the table.
C3_MissingTableError ==
    (last.op \in {"get_bcgw_geomcolumn", "get_bcgw_columns"}
     /\ HasTableAnswered(last, last.table, FALSE))
    => (last.err = "Exception" /\ last.errtable = last.table)

\* C4 (as claimed): for an existing table and an attached AOI,
\* has_relate(table, filter) returns without error, and returns true exactly
\* when a row interacts with the AOI and satisfies the filter.
C4_HasRelateIff ==
    (last.op = "has_relate" /\ last.buffer = None /\ last.exists /\ aoi # None
     /\ phase = "live")
    => /\ last.err = ""
       /\ last.b <=> Matching(last.table, last.filter, AoiGeometry) # <<>>

\* C5 (as claimed): in oracle_test.py, for an existing table and an attached
\* AOI, has_relate returns false, without raising, when the predicate query
\* returns no row, and true when it returns a row.
C5_UnguardedHasRelate ==
    (last.op = "has_relate" /\ last.exists /\ aoi # None /\ phase = "live")
    => /\ last.err = ""
       /\ last.b <=>
            Select(last.table,
                   AppendFilter(<<"SDO_RELATE", "AND", "ROWNUM=1">>, last.filter),
                   SDO_GEOMETRY(get_wkb_geom(aoi[1]), EPSG)) # <<>>

\* C6 (as claimed): for an existing table and an attached AOI, get_related
\* and get_intersecting return without error one output row per table row
\* that interacts with the query geometry and satisfies the filter (none when
\* no row does).
C6_RowCount ==
    (last.op \in {"get_related", "get_intersecting"} /\ last.exists /\ aoi # None
     /\ phase = "live")
    => /\ last.err = ""
       /\ last.kind \in {"frame", "none"}
       /\ Ids(last.rows) = Ids(Matching(last.table, last.filter, QueryGeometry(last.buffer)))

\* C7 (as claimed): for an existing table and an attached AOI,
\* get_intersect_local returns None exactly when no row satisfying the filter
\* interacts with the query geometry of the call (the AOI, or the buffer ring
\* when a buffer is given), and the relation check and the row fetch of one
\* call bind the same geometry.
C7_LocalSameGeometry ==
    (last.op = "get_intersect_local" /\ last.exists /\ aoi # None /\ phase = "live")
    => /\ last.err = ""
       /\ last.kind = "none" <=>
            Matching(last.table, last.filter, QueryGeometry(last.buffer)) = <<>>
       /\ \A i, j \in DOMAIN last.log :
            (last.log[i].ev = "query" /\ last.log[i].kind \in PredicateKinds
             /\ last.log[j].ev = "query" /\ last.log[j].kind \in PredicateKinds)
            => last.log[i].q = last.log[j].q

\* C8 (as claimed): a call of get_outisde_buffer with distance d returns the
\* object stored under d, which is the candidate of larger area; a call that
\* finds d cached computes nothing; and no call changes or removes an entry
\* stored before.
C8_BufferCache ==
    [][(last'.op = "get_outisde_buffer" /\ aoi # None) =>
         LET d == last'.buffer[1] IN
         /\ last'.err = ""
         /\ d \in DOMAIN aoi'[1].buffers
         /\ last'.buf = Some(aoi'[1].buffers[d])
         /\ Area(aoi'[1].buffers[d].geoms[1]) = Area(RingOf(aoi[1].df.geoms[1], d))
         /\ d \in DOMAIN aoi[1].buffers => aoi'[1].computes = aoi[1].computes
         /\ \A e \in DOMAIN aoi[1].buffers :
               e \in DOMAIN aoi'[1].buffers /\ aoi'[1].buffers[e] = aoi[1].buffers[e]
      ]_vars

\* C9: a connection is opened only while the client holds none; a held
\* connection is never replaced; at most one session is open at any time; and
\* __del__ closes the held connection exactly when there is one.
C9_ConnectIdempotent ==
    [][/\ conn # None => conn' = conn
       /\ opened' # opened =>
            /\ conn = None
            /\ opened' = opened + 1
            /\ conn' = Some(opened')
            /\ sessions' = sessions \cup {opened'}
       /\ opened' = opened => sessions' \subseteq sessions
       /\ Cardinality(sessions') <= 1
       /\ last'.op = "__del__" =>
            /\ closes' = closes + (IF conn # None THEN 1 ELSE 0)
            /\ sessions' = {}
       /\ last'.op # "__del__" => closes' = closes /\ sessions \subseteq sessions'
      ]_vars

\* C9 witness: connect was called again on a client that holds its
\* connection, and the client still holds the one session opened.
C9_Witness ==
    /\ last.op = "connect"
    /\ phase = "live"
    /\ conn = Some(1)
    /\ sessions = {1}
    /\ opened = 1

\* C10 (as claimed): when establishing the connection fails, no error leaves
\* the constructor, and the client is constructed with no connection and an
\* empty table registry.
C10_FailureSwallowed ==
    (last.op = "__init__" /\ ~last.db_up)
    => /\ last.err = ""
       /\ phase = "live"
       /\ conn = None
       /\ "table_dict" \in attrs
       /\ table_dict = {}

\* The two bands along a geometry's boundary at a distance: the candidates of
\* a buffer computed from that geometry.
Bands(g, d) == {Outer(g, Abs(d)), Inner(g, Abs(d))}

\* The place of a dataset's features, read in the coordinates of EPSG:3005.
In3005(src) ==
    [i \in 1..Len(src.geoms) |-> {c - CrsOffset(src.crs) : c \in src.geoms[i]}]

\* The cursors open after the first n events of a call.
Depth(log, n) ==
    Cardinality({i \in 1..n : log[i].ev = "cursor_open"})
    - Cardinality({i \in 1..n : log[i].ev = "cursor_close"})

\* C11: add_aoi replaces the attached AOI by the newly loaded one, which is in
\* EPSG:3005 (kept as read when the source is in EPSG:3005, reprojected
\* otherwise) and has no buffer cached; no other call changes the geometry of
\* the attached AOI; every buffer cached on the attached AOI is a band of that
\* AOI's geometry at the distance it is stored under; and every predicate
\* statement binds srid 3005 and either the attached AOI's geometry or a band
\* of it at the requested distance.
C11_CurrentAoiBound ==
    [][/\ last'.op = "add_aoi" =>
            /\ aoi' # None
            /\ aoi'[1].df.crs = 3005
            /\ DOMAIN aoi'[1].buffers = {}
            /\ aoi'[1].df.geoms = In3005(read_file(last'.input))
            /\ read_file(last'.input).crs = 3005 => aoi'[1].df = read_file(last'.input)
       /\ (last'.op \notin {"add_aoi", "__init__"} /\ aoi # None) =>
            /\ aoi' # None
            /\ aoi'[1].df = aoi[1].df
       /\ aoi' # None =>
            /\ aoi'[1].df.crs = 3005
            /\ \A d \in DOMAIN aoi'[1].buffers :
                  aoi'[1].buffers[d].geoms[1] \in Bands(aoi'[1].df.geoms[1], d)
       /\ \A i \in DOMAIN last'.log :
            (last'.log[i].ev = "query" /\ last'.log[i].kind \in PredicateKinds) =>
               /\ aoi # None
               /\ last'.log[i].q.srid = 3005
               /\ last'.log[i].q.coords \in
                    {aoi[1].df.geoms[1]} \cup
                    (IF last'.buffer = None THEN {}
                     ELSE Bands(aoi[1].df.geoms[1], last'.buffer[1]))
      ]_vars

\* C11 witness: get_related with a buffer distance, on an AOI that was read in
\* another reference and reprojected, bound the outer band of the reprojected
\* geometry with srid 3005.
C11_Witness ==
    /\ last.op = "get_related"
    /\ last.buffer = Some(1)
    /\ last.err = ""
    /\ aoi # None
    /\ aoi[1].df = [crs |-> 3005, cw |-> TRUE, geoms |-> <<{1}>>]
    /\ \E i \in DOMAIN last.log :
          /\ last.log[i].ev = "query"
          /\ last.log[i].kind = "get_related"
          /\ last.log[i].q = [coords |-> {0, 2}, srid |-> 3005]

\* C12: in every call, at most one cursor is open at any moment, every
\* statement is executed on an open cursor, no two statements share a cursor,
\* and every cursor opened has been released when the call ends, by return or
\* by an error raised while the cursor was open.
C12_CursorReleased ==
    /\ \A n \in 0..Len(last.log) : Depth(last.log, n) \in {0, 1}
    /\ Depth(last.log, Len(last.log)) = 0
    /\ \A i \in DOMAIN last.log :
          last.log[i].ev = "query" => Depth(last.log, i) = 1
    /\ \A i, j \in DOMAIN last.log :
          (i < j /\ last.log[i].ev = "query" /\ last.log[j].ev = "query") =>
             \E k \in (i + 1)..(j - 1) : last.log[k].ev = "cursor_close"

\* C12 witness: get_bcgw_geomcolumn on a table dropped after it was registered
\* raised TypeError inside the cursor scope, after the statement was executed
\* and fetched, and the cursor was released.
C12_Witness ==
    /\ last.op = "get_bcgw_geomcolumn"
    /\ last.err = "TypeError"
    /\ Queried(last, last.table, {"geomcol"})
    /\ last.log[Len(last.log)].ev = "cursor_close"

====
